---- MODULE Spec2Model ----
(***************************************************************************)
(* Build configuration core of the PC builder: the build store kept by     *)
(* App (build, activeCategory), the handlers that mutate it, the derived   *)
(* aggregates (totalPrice, activeParts.length), the local socket validator *)
(* of ComponentList (getCompatibilityWarning), the diagram VisualBuilder   *)
(* derives from the build (renderSlot, renderConnections) and the analysis *)
(* run by runAnalysis through checkCompatibility.                          *)
(*                                                                         *)
(* A JavaScript object is modelled as a function whose DOMAIN is the set   *)
(* of its own keys.  Object.values enumerates the keys in insertion order, *)
(* which depends on the history of the object; the aggregates therefore    *)
(* take the key order as an argument and the properties about them range   *)
(* over the key orders a history can produce.                              *)
(***************************************************************************)
EXTENDS Integers, Sequences, FiniteSets, TLC

VARIABLES build, activeCategory, lastOp,
          analysis, analyzing, showAnalysis, requests,
          items, loading, error, fetches, effectCategory

vars == <<build, activeCategory, lastOp, analysis, analyzing, showAnalysis, requests,
          items, loading, error, fetches, effectCategory>>

\* the state of the analysis: the stored result, the pending flag, the
\* visibility of the analysis view and the calls of checkCompatibility made
\* so far, each with the build it was given and the value it resolved to
analysisVars == <<analysis, analyzing, showAnalysis, requests>>

\* the state of the candidate list of ComponentList: the items shown, the
\* loading flag, the error message, the calls of fetchComponents made so
\* far, each with its category and the list it resolved to, and the
\* category the effect that loads the list has last run for
catalogVars == <<items, loading, error, fetches, effectCategory>>

(***************************************************************************)
(* Bounds of the model.                                                    *)
(***************************************************************************)
\* the highest price the catalog provider quotes
MaxPrice == 9

\* the number of categories, counted in declaration order, for which the
\* provider has items in the model of the key orders; it answers the other
\* requests with an empty list
MaxStocked == 6

(***************************************************************************)
(* types.ts                                                                *)
(***************************************************************************)
\* enum PartType, in declaration order (the order of Object.values(PartType))
PartTypeValues ==
    <<"CPU", "Motherboard", "RAM", "GPU", "Storage", "Power Supply", "Cabinet", "Cooler">>

PartType == {PartTypeValues[i] : i \in 1..Len(PartTypeValues)}

\* the JavaScript value undefined, where a string is expected
Undefined == "undefined"

\* socket values a provider record may carry: two sockets, the empty string,
\* or no socket key at all
Sockets == {"AM5", "LGA1700", "", Undefined}

\* specs of a record: the specs object may be missing altogether (it is not
\* among the required properties of the response schema), otherwise it is an
\* object that may or may not have a socket key
NoSpecs == [defined |-> FALSE, socket |-> Undefined]

SpecsWith(s) == [defined |-> TRUE, socket |-> s]

SpecsValues == {NoSpecs} \cup {SpecsWith(s) : s \in Sockets}

\* interface ComponentData: the fields the core reads
ComponentData ==
    [name : {"basic", "premium"}, price : 0..MaxPrice, type : PartType, specs : SpecsValues]

\* JavaScript truthiness of a string-or-undefined value
Truthy(s) == s \notin {Undefined, ""}

\* position of a value in a sequence, 0-based, -1 when absent (Array.indexOf)
indexOf(seq, v) ==
    IF \E i \in 1..Len(seq) : seq[i] = v
    THEN (CHOOSE i \in 1..Len(seq) : seq[i] = v /\ \A j \in 1..(i - 1) : seq[j] # v) - 1
    ELSE -1

(***************************************************************************)
(* services/geminiService.ts: fetchComponents                              *)
(***************************************************************************)
\* the mapping keeps the type the provider wrote
fetchItemTrusting(item, category) == item

\* the mapping applied to every item of a provider response: the record is
\* kept as delivered except for its type, which is forced to the category
\* that was requested
fetchItem(item, category) == [item EXCEPT !.type = category]

(***************************************************************************)
(* App.tsx: the build store                                                *)
(***************************************************************************)
INITIAL_BUILD == << >>

\* build[type] is set (hasItem, isActive: !!build[type])
Has(b, type) == type \in DOMAIN b

\* { ...prev, [part.name]: part }: the record stored under another of its fields
SetSlotByName(prev, part) ==
    [k \in DOMAIN prev \cup {part.name} |-> IF k = part.name THEN part ELSE prev[k]]

\* { [part.type]: part, ...prev }: the spread applied last, an occupant is kept
SetSlotKeepOld(prev, part) ==
    [k \in DOMAIN prev \cup {part.type} |-> IF k \in DOMAIN prev THEN prev[k] ELSE part]

\* { [part.type]: part }: the spread of prev left out
SetSlotFresh(prev, part) == [k \in {part.type} |-> part]

\* the updater of handleAddPart: { ...prev, [part.type]: part }
SetSlot(prev, part) ==
    [k \in DOMAIN prev \cup {part.type} |-> IF k = part.type THEN part ELSE prev[k]]

\* the keys of b in the declaration order of PartType
DeclOrder(b) == SelectSeq(PartTypeValues, LAMBDA t : t \in DOMAIN b)

\* keys.splice(keys.indexOf(type), 1): index -1 removes the last key
ClearSlotSplice(prev, type) ==
    LET keys == DeclOrder(prev)
        gone == IF type \in DOMAIN prev \/ keys = << >> THEN type ELSE keys[Len(keys)]
    IN  [k \in DOMAIN prev \ {gone} |-> prev[k]]

\* delete applied to a key other than the one asked for: nothing is removed
\* from an occupied slot, the build is emptied when the slot is empty
ClearSlotReset(prev, type) == IF type \in DOMAIN prev THEN prev ELSE << >>

\* the updater of handleRemovePart:
\* const next = { ...prev }; delete next[type]; return next
ClearSlot(prev, type) == [k \in DOMAIN prev \ {type} |-> prev[k]]

\* the auto-advance order of handleAddPart
order ==
    <<"CPU", "Motherboard", "RAM", "GPU", "Storage", "Cooler", "Power Supply", "Cabinet">>

\* the advance wraps around from the last category to the first
advanceAfterAddWrap(active, type) ==
    order[((indexOf(order, type) + 1) % Len(order)) + 1]

\* the active category after a part of the given type was added
advanceAfterAdd(active, type) ==
    LET currentIndex == indexOf(order, type)
    IN  IF currentIndex < Len(order) - 1 THEN order[(currentIndex + 1) + 1] ELSE active

(***************************************************************************)
(* App.tsx: derived aggregates                                             *)
(***************************************************************************)
\* the set of sequences that enumerate the set S once each: the insertion
\* orders the keys S of an object can have
RECURSIVE Orders(_)
Orders(S) ==
    IF S = {} THEN {<< >>}
    ELSE UNION {{<<x>> \o rest : rest \in Orders(S \ {x})} : x \in S}

\* Object.values(build).filter(p => !!p.price): the filter applied to the
\* price instead of the record
activePartsPriced(b, ord) ==
    LET values == [i \in 1..Len(ord) |-> b[ord[i]]]
    IN  SelectSeq(values, LAMBDA p : p.price # 0)

\* Object.values(build).filter(p => !!p), the keys enumerated in order ord;
\* every stored value is a record, and a record is truthy
activeParts(b, ord) ==
    LET values == [i \in 1..Len(ord) |-> b[ord[i]]]
    IN  SelectSeq(values, LAMBDA p : TRUE)

\* part.price || 0
PriceOrZero(part) == IF part.price = 0 THEN 0 ELSE part.price

\* activeParts.reduce((sum, part) => sum + (part.price || 0), 0)
RECURSIVE reduceSum(_, _)
reduceSum(parts, sum) ==
    IF parts = << >> THEN sum
    ELSE reduceSum(Tail(parts), sum + PriceOrZero(Head(parts)))

\* a loop that starts at index 1: the first part is left out of the sum
totalPriceSkipFirst(b, ord) ==
    LET parts == activeParts(b, ord)
    IN  IF parts = << >> THEN 0 ELSE reduceSum(Tail(parts), 0)

totalPrice(b, ord) == reduceSum(activeParts(b, ord), 0)

\* activeParts.length, shown as "n/8 Selected"
filledCount(b, ord) == Len(activeParts(b, ord))

(***************************************************************************)
(* components/ComponentList.tsx: the local validator                       *)
(***************************************************************************)
\* outcomes of the validator other than a warning string: the value null,
\* the TypeError thrown by reading a property of undefined, and the marker
\* of a rule that did not return
NoWarning == "null"

TypeError == "TypeError"

FallThrough == "fallthrough"

\* `Socket Mismatch: ${a} vs ${b}`
SocketMismatch(a, b) == "Socket Mismatch: " \o a \o " vs " \o b

\* const specs = part.specs || {}
SpecsOrEmpty(part) == IF part.specs.defined THEN part.specs ELSE SpecsWith(Undefined)

\* the first rule with the operands of its message exchanged
cpuVsMoboSwapped(part, b) ==
    IF part.type = "CPU" /\ Has(b, "Motherboard")
    THEN IF ~b["Motherboard"].specs.defined
         THEN TypeError
         ELSE LET moboSocket == b["Motherboard"].specs.socket
                  cpuSocket == SpecsOrEmpty(part).socket
              IN  IF Truthy(moboSocket) /\ Truthy(cpuSocket) /\ moboSocket # cpuSocket
                  THEN SocketMismatch(moboSocket, cpuSocket)
                  ELSE FallThrough
    ELSE FallThrough

\* the first rule, candidate CPU against the installed motherboard:
\* build[MOTHERBOARD]?.specs.socket reads socket of specs, and throws when
\* the installed record has no specs
cpuVsMobo(part, b) ==
    IF part.type = "CPU" /\ Has(b, "Motherboard")
    THEN IF ~b["Motherboard"].specs.defined
         THEN TypeError
         ELSE LET moboSocket == b["Motherboard"].specs.socket
                  cpuSocket == SpecsOrEmpty(part).socket
              IN  IF Truthy(moboSocket) /\ Truthy(cpuSocket) /\ moboSocket # cpuSocket
                  THEN SocketMismatch(cpuSocket, moboSocket)
                  ELSE FallThrough
    ELSE FallThrough

\* the second rule with the message of the first rule
moboVsCpuCopied(part, b) ==
    IF part.type = "Motherboard" /\ Has(b, "CPU")
    THEN IF ~b["CPU"].specs.defined
         THEN TypeError
         ELSE LET cpuSocket == b["CPU"].specs.socket
                  moboSocket == SpecsOrEmpty(part).socket
              IN  IF Truthy(moboSocket) /\ Truthy(cpuSocket) /\ moboSocket # cpuSocket
                  THEN SocketMismatch(cpuSocket, moboSocket)
                  ELSE FallThrough
    ELSE FallThrough

\* the second rule, candidate motherboard against the installed CPU
moboVsCpu(part, b) ==
    IF part.type = "Motherboard" /\ Has(b, "CPU")
    THEN IF ~b["CPU"].specs.defined
         THEN TypeError
         ELSE LET cpuSocket == b["CPU"].specs.socket
                  moboSocket == SpecsOrEmpty(part).socket
              IN  IF Truthy(moboSocket) /\ Truthy(cpuSocket) /\ moboSocket # cpuSocket
                  THEN SocketMismatch(moboSocket, cpuSocket)
                  ELSE FallThrough
    ELSE FallThrough

\* getCompatibilityWarning(part), evaluated against the build for every
\* candidate of the list when the list is rendered
getCompatibilityWarning(part, b) ==
    IF cpuVsMobo(part, b) # FallThrough THEN cpuVsMobo(part, b)
    ELSE IF moboVsCpu(part, b) # FallThrough THEN moboVsCpu(part, b)
    ELSE NoWarning

(***************************************************************************)
(* The catalog provider (external): what it may answer for a category      *)
(***************************************************************************)
\* the type the provider wrote on a record it returned for a category: the
\* provider is loose, it may write the category or another one
LooseTypes(category) == {category, "Cooler", "CPU"}

\* price of the premium item of a category: all different, all positive
PremiumPrice(category) == MaxPrice - indexOf(PartTypeValues, category)

\* the categories in which the provider also quotes a basic item
BasicRange == {"CPU", "GPU", "Cabinet"}

\* a provider response for a category, store model: a premium item and, in
\* some categories, a basic item whose price is 0; neither has a socket
StoreItems(category) ==
    {[name |-> "premium", price |-> PremiumPrice(category), type |-> t, specs |-> NoSpecs]
        : t \in LooseTypes(category)}
    \cup
    {[name |-> "basic", price |-> 0, type |-> t, specs |-> SpecsWith(Undefined)]
        : t \in IF category \in BasicRange THEN LooseTypes(category) ELSE {}}

\* the candidates a catalog fetch can put in the list: every record of a
\* response, as fetchComponents delivers it
StoreCandidates ==
    UNION {{fetchItem(item, category) : item \in StoreItems(category)} : category \in PartType}

\* a provider response for a category, validator model: CPUs and
\* motherboards with every kind of specs, one item in the other categories
SocketItems(category) ==
    {[name |-> "premium", price |-> PremiumPrice(category), type |-> t, specs |-> sp]
        : t \in LooseTypes(category),
          sp \in IF category \in {"CPU", "Motherboard"} THEN SpecsValues ELSE {NoSpecs}}

SocketCandidates ==
    UNION {{fetchItem(item, category) : item \in SocketItems(category)} : category \in PartType}

\* the most calls of fetchComponents, the one of the mount included
MaxFetches == 3

\* no error message
NoError == "null"

\* the arrays a provider response can carry for a category: no item, or
\* the premium item of the store model under each type the provider may
\* write on it
CatalogLists(category) ==
    {<< >>} \cup {<<item>> : item \in {it \in StoreItems(category) : it.name = "premium"}}

\* what the provider does with a request for a category: getAI or
\* generateContent rejects, the response has no text, the text is not
\* JSON, the text is the JSON null, or the text is a JSON array of items
CatalogOutcomes(category) ==
    {[kind |-> k, rawData |-> << >>] : k \in {"reject", "notext", "badjson", "jsonnull"}}
        \cup {[kind |-> "json", rawData |-> list] : list \in CatalogLists(category)}

\* the try block of fetchComponents: the mapped array, the empty array for
\* a response without text, or an exception (a rejection, the SyntaxError
\* of JSON.parse, the TypeError of null.map)
tryFetchComponents(category, outcome) ==
    CASE outcome.kind = "json" ->
             [ok |-> TRUE,
              data |-> [i \in 1..Len(outcome.rawData) |-> fetchItem(outcome.rawData[i], category)]]
      [] outcome.kind = "notext" -> [ok |-> TRUE, data |-> << >>]
      [] OTHER -> [ok |-> FALSE, data |-> << >>]

\* fetchComponents(category, query): what the returned promise settles on,
\* the empty array when the try block threw
fetchComponents(category, outcome) ==
    IF tryFetchComponents(category, outcome).ok
    THEN tryFetchComponents(category, outcome)
    ELSE [ok |-> TRUE, data |-> << >>]

\* the call of fetchComponents with this number has not settled
Loading(id) == id \in DOMAIN fetches /\ ~fetches[id].settled

(***************************************************************************)
(* VisualBuilder: the diagram derived from the build                       *)
(***************************************************************************)
\* the geometry of the 500x600 container
COMPONENT_COORDS ==
    [type \in PartType |->
        CASE type = "Motherboard"  -> [x |-> 20,  y |-> 20,  width |-> 380, height |-> 440, class |-> "z-0 opacity-40"]
          [] type = "CPU"          -> [x |-> 168, y |-> 110, width |-> 80,  height |-> 80,  class |-> "z-30"]
          [] type = "Cooler"       -> [x |-> 168, y |-> 110, width |-> 80,  height |-> 80,  class |-> "z-40"]
          [] type = "RAM"          -> [x |-> 300, y |-> 110, width |-> 32,  height |-> 128, class |-> "z-30"]
          [] type = "GPU"          -> [x |-> 64,  y |-> 240, width |-> 256, height |-> 128, class |-> "z-30"]
          [] type = "Power Supply" -> [x |-> 30,  y |-> 480, width |-> 160, height |-> 96,  class |-> "z-30"]
          [] type = "Storage"      -> [x |-> 380, y |-> 420, width |-> 96,  height |-> 64,  class |-> "z-30"]
          [] type = "Cabinet"      -> [x |-> 0,   y |-> 0,   width |-> 500, height |-> 600, class |-> "z-0 hidden"]]

\* the slot of a category shows the part of the CPU slot when it is the
\* cooler, which shares the CPU's coordinates
renderSlotOverlaid(b, type) ==
    LET from     == IF type = "Cooler" THEN "CPU" ELSE type
        isActive == Has(b, from)
        coords   == COMPONENT_COORDS[type]
    IN  IF isActive
        THEN [key |-> type, isActive |-> TRUE, top |-> coords.y, left |-> coords.x,
              width |-> coords.width, height |-> coords.height, class |-> coords.class,
              name |-> b[from].name, price |-> b[from].price]
        ELSE [key |-> type, isActive |-> FALSE, top |-> coords.y, left |-> coords.x,
              width |-> coords.width, height |-> coords.height, class |-> coords.class,
              label |-> type]

\* renderSlot(type, Icon): the slot element of a category; an active slot
\* shows the name and the price of the part, an empty one the category
renderSlot(b, type) ==
    LET isActive == Has(b, type)
        coords   == COMPONENT_COORDS[type]
    IN  IF isActive
        THEN [key |-> type, isActive |-> TRUE, top |-> coords.y, left |-> coords.x,
              width |-> coords.width, height |-> coords.height, class |-> coords.class,
              name |-> b[type].name, price |-> b[type].price]
        ELSE [key |-> type, isActive |-> FALSE, top |-> coords.y, left |-> coords.x,
              width |-> coords.width, height |-> coords.height, class |-> coords.class,
              label |-> type]

\* the categories VisualBuilder renders a slot for, in the order of the calls
RenderedSlots == <<"CPU", "Cooler", "RAM", "GPU", "Storage", "Power Supply">>

\* the categories with a slot element, the only ones a click can remove:
\* the motherboard is drawn as a static board and the case is the container
SlottedCategories == {RenderedSlots[i] : i \in 1..Len(RenderedSlots)}

\* the slot elements of the diagram
slots(b) == [i \in 1..Len(RenderedSlots) |-> renderSlot(b, RenderedSlots[i])]

\* the anchors are the top-left corners of the geometry
centersTopLeft ==
    [type \in PartType |-> [x |-> COMPONENT_COORDS[type].x, y |-> COMPONENT_COORDS[type].y]]

\* x + width / 2 read as (x + width) / 2
centersHalved ==
    [type \in PartType |->
        [x |-> (COMPONENT_COORDS[type].x + COMPONENT_COORDS[type].width) \div 2,
         y |-> (COMPONENT_COORDS[type].y + COMPONENT_COORDS[type].height) \div 2]]

\* the centre of every entry of the geometry; every width and height of the
\* geometry is even, so the halves are whole
centers ==
    [type \in PartType |->
        [x |-> COMPONENT_COORDS[type].x + COMPONENT_COORDS[type].width \div 2,
         y |-> COMPONENT_COORDS[type].y + COMPONENT_COORDS[type].height \div 2]]

\* a point of a path; a path `M p1 L p2 L p3 ...` is the sequence of its
\* points
Point(px, py) == [x |-> px, y |-> py]

\* the power edges are straight lines
getOrthoPathDirect(start, end) == <<[x |-> start.x, y |-> start.y], [x |-> end.x, y |-> end.y]>>

\* getOrthoPath(start, end): down to the middle height, across, then on to
\* the end; the sums of the heights it is applied to are even
getOrthoPath(start, end) ==
    LET midY == (start.y + end.y) \div 2
    IN  <<Point(start.x, start.y), Point(start.x, midY), Point(end.x, midY), Point(end.x, end.y)>>

\* the rule of an earlier revision for the data bus: motherboard and RAM
connectionsLegacy(b) ==
    (IF Has(b, "Power Supply") /\ Has(b, "Motherboard")
     THEN <<[path |-> getOrthoPath(centers["Power Supply"], centers["Motherboard"]),
             color |-> "url(#grad-power)", id |-> "psu-mobo", glow |-> "#22d3ee"]>>
     ELSE << >>)
    \o
    (IF Has(b, "Power Supply") /\ Has(b, "GPU")
     THEN <<[path |-> getOrthoPath(centers["Power Supply"], centers["GPU"]),
             color |-> "url(#grad-power-gpu)", id |-> "psu-gpu", glow |-> "#facc15"]>>
     ELSE << >>)
    \o
    (IF Has(b, "Motherboard") /\ Has(b, "RAM")
     THEN <<[path |-> <<Point(centers["CPU"].x, centers["CPU"].y),
                        Point(centers["RAM"].x, centers["RAM"].y)>>,
             color |-> "url(#grad-data)", id |-> "cpu-ram", glow |-> "#a78bfa"]>>
     ELSE << >>)
    \o
    (IF Has(b, "Motherboard") /\ Has(b, "Storage")
     THEN <<[path |-> <<Point(centers["Motherboard"].x + 60, centers["Motherboard"].y + 120),
                        Point(centers["Storage"].x, centers["Motherboard"].y + 120),
                        Point(centers["Storage"].x, centers["Storage"].y)>>,
             color |-> "#34d399", id |-> "mobo-sata", glow |-> "#34d399"]>>
     ELSE << >>)

\* the CPU-GPU lanes are routed around the memory when a RAM module is in
\* the build
connectionsRerouted(b) ==
    (IF Has(b, "Power Supply") /\ Has(b, "Motherboard")
     THEN <<[path |-> getOrthoPath(centers["Power Supply"], centers["Motherboard"]),
             color |-> "url(#grad-power)", id |-> "psu-mobo", glow |-> "#22d3ee"]>>
     ELSE << >>)
    \o
    (IF Has(b, "Power Supply") /\ Has(b, "GPU")
     THEN <<[path |-> getOrthoPath(centers["Power Supply"], centers["GPU"]),
             color |-> "url(#grad-power-gpu)", id |-> "psu-gpu", glow |-> "#facc15"]>>
     ELSE << >>)
    \o
    (IF Has(b, "CPU") /\ Has(b, "RAM")
     THEN <<[path |-> <<Point(centers["CPU"].x, centers["CPU"].y),
                        Point(centers["RAM"].x, centers["RAM"].y)>>,
             color |-> "url(#grad-data)", id |-> "cpu-ram", glow |-> "#a78bfa"]>>
     ELSE << >>)
    \o
    (IF Has(b, "CPU") /\ Has(b, "GPU")
     THEN <<[path |-> IF Has(b, "RAM")
                      THEN <<Point(centers["CPU"].x, centers["CPU"].y),
                             Point(centers["GPU"].x, centers["CPU"].y),
                             Point(centers["GPU"].x, centers["GPU"].y)>>
                      ELSE <<Point(centers["CPU"].x, centers["CPU"].y),
                             Point(centers["CPU"].x, centers["GPU"].y),
                             Point(centers["GPU"].x, centers["GPU"].y)>>,
             color |-> "url(#grad-data)", id |-> "cpu-gpu", glow |-> "#a78bfa"]>>
     ELSE << >>)
    \o
    (IF Has(b, "Motherboard") /\ Has(b, "Storage")
     THEN <<[path |-> <<Point(centers["Motherboard"].x + 60, centers["Motherboard"].y + 120),
                        Point(centers["Storage"].x, centers["Motherboard"].y + 120),
                        Point(centers["Storage"].x, centers["Storage"].y)>>,
             color |-> "#34d399", id |-> "mobo-sata", glow |-> "#34d399"]>>
     ELSE << >>)

\* the connections array of renderConnections: one entry pushed per rule
\* whose two parts are in the build
connections(b) ==
    (IF Has(b, "Power Supply") /\ Has(b, "Motherboard")
     THEN <<[path |-> getOrthoPath(centers["Power Supply"], centers["Motherboard"]),
             color |-> "url(#grad-power)", id |-> "psu-mobo", glow |-> "#22d3ee"]>>
     ELSE << >>)
    \o
    (IF Has(b, "Power Supply") /\ Has(b, "GPU")
     THEN <<[path |-> getOrthoPath(centers["Power Supply"], centers["GPU"]),
             color |-> "url(#grad-power-gpu)", id |-> "psu-gpu", glow |-> "#facc15"]>>
     ELSE << >>)
    \o
    (IF Has(b, "CPU") /\ Has(b, "RAM")
     THEN <<[path |-> <<Point(centers["CPU"].x, centers["CPU"].y),
                        Point(centers["RAM"].x, centers["RAM"].y)>>,
             color |-> "url(#grad-data)", id |-> "cpu-ram", glow |-> "#a78bfa"]>>
     ELSE << >>)
    \o
    (IF Has(b, "CPU") /\ Has(b, "GPU")
     THEN <<[path |-> <<Point(centers["CPU"].x, centers["CPU"].y),
                        Point(centers["CPU"].x, centers["GPU"].y),
                        Point(centers["GPU"].x, centers["GPU"].y)>>,
             color |-> "url(#grad-data)", id |-> "cpu-gpu", glow |-> "#a78bfa"]>>
     ELSE << >>)
    \o
    (IF Has(b, "Motherboard") /\ Has(b, "Storage")
     THEN <<[path |-> <<Point(centers["Motherboard"].x + 60, centers["Motherboard"].y + 120),
                        Point(centers["Storage"].x, centers["Motherboard"].y + 120),
                        Point(centers["Storage"].x, centers["Storage"].y)>>,
             color |-> "#34d399", id |-> "mobo-sata", glow |-> "#34d399"]>>
     ELSE << >>)

\* the edges of the CPU are not drawn while a cooler covers it
renderConnectionsCooled(b) ==
    LET shown == SelectSeq(connections(b),
                           LAMBDA conn : ~(Has(b, "Cooler") /\ conn.id \in {"cpu-ram", "cpu-gpu"}))
    IN  [i \in 1..Len(shown) |->
            [key |-> shown[i].id,
             glowPath |-> [d |-> shown[i].path, stroke |-> shown[i].glow],
             corePath |-> [d |-> shown[i].path, stroke |-> shown[i].color],
             packetPath |-> shown[i].path]]

\* the glow layer and the core line are drawn as two groups of the same key
renderConnectionsLayered(b) ==
    [i \in 1..(2 * Len(connections(b))) |->
        LET conn == connections(b)[(i + 1) \div 2]
        IN  [key |-> conn.id,
             glowPath |-> [d |-> conn.path, stroke |-> conn.glow],
             corePath |-> [d |-> conn.path, stroke |-> IF i % 2 = 1 THEN conn.glow ELSE conn.color],
             packetPath |-> conn.path]]

\* renderConnections: one group per connection, keyed by its id, with the
\* glow layer, the core line and the travelling packet on the same path
renderConnections(b) ==
    [i \in 1..Len(connections(b)) |->
        [key |-> connections(b)[i].id,
         glowPath |-> [d |-> connections(b)[i].path, stroke |-> connections(b)[i].glow],
         corePath |-> [d |-> connections(b)[i].path, stroke |-> connections(b)[i].color],
         packetPath |-> connections(b)[i].path]]

(***************************************************************************)
(* geminiService.ts: checkCompatibility                                    *)
(***************************************************************************)
\* the most requests the user starts
MaxRequests == 2

\* the JavaScript value null
JsNull == [null |-> TRUE]

\* the value of a promise that has not settled
PendingValue == [pending |-> TRUE]

\* an exception that was thrown
Thrown(e) == [thrown |-> e]

IsThrown(v) == "thrown" \in DOMAIN v

\* the result returned by the catch block
FallbackResult ==
    [isCompatible |-> TRUE,
     issues |-> <<"Could not verify compatibility (AI Error)">>,
     notes |-> << >>,
     estimatedWattage |-> 0,
     bottleneck |-> "Unknown",
     aiScore |-> 0]

\* a response text that is one complete CompatibilityResult
ResultText ==
    "{\"isCompatible\":false,\"issues\":[\"PSU too weak\"],\"notes\":[],\"estimatedWattage\":450,\"bottleneck\":\"GPU\",\"aiScore\":72}"

\* a response text that is a JSON object without most of the properties,
\* none of which the response schema requires
PartialText == "{\"isCompatible\":false}"

\* the texts a response of the collaborator carries: none, the empty text,
\* a text that is not JSON, and JSON texts
ResponseTexts == {Undefined, "", "Service unavailable", "null", PartialText, ResultText}

\* JSON.parse on the response texts: the value the text denotes, a
\* SyntaxError for a text that is not JSON
JSONparse(text) ==
    CASE text = "null"      -> JsNull
      [] text = PartialText -> [isCompatible |-> FALSE]
      [] text = ResultText  -> [isCompatible |-> FALSE,
                                issues |-> <<"PSU too weak">>,
                                notes |-> << >>,
                                estimatedWattage |-> 450,
                                bottleneck |-> "GPU",
                                aiScore |-> 72]
      [] OTHER              -> Thrown("SyntaxError")

\* what the collaborator does with a request: getAI or generateContent
\* rejects, or generateContent resolves to a response with a text
CollaboratorOutcomes ==
    {[rejects |-> TRUE, text |-> Undefined]}
        \cup {[rejects |-> FALSE, text |-> t] : t \in ResponseTexts}

\* the try block of checkCompatibility: the parsed text of the response, or
\* the exception thrown on the way
tryCheckCompatibility(outcome) ==
    IF outcome.rejects THEN Thrown("Error")
    ELSE IF Truthy(outcome.text) THEN JSONparse(outcome.text)
    ELSE Thrown("No analysis returned")

\* JSON.stringify(part?.specs): undefined for a record without specs, and
\* a socket that is undefined is left out of the object
stringifySpecs(specs) ==
    IF ~specs.defined THEN "undefined"
    ELSE IF specs.socket = Undefined THEN "{}"
    ELSE "{\"socket\":\"" \o specs.socket \o "\"}"

\* the line of the build summary for one entry of the build
summaryLine(type, part) ==
    type \o ": " \o part.name \o " (Specs: " \o stringifySpecs(part.specs) \o ")"

\* the summary has a line for each of the eight categories
buildSummaryAllSlots(b, ord) ==
    [i \in 1..Len(PartTypeValues) |->
        IF Has(b, PartTypeValues[i])
        THEN summaryLine(PartTypeValues[i], b[PartTypeValues[i]])
        ELSE PartTypeValues[i] \o ": undefined (Specs: undefined)"]

\* buildSummary: one line per entry of Object.entries(build), in the order
\* of the keys; the prompt joins the lines with newlines
buildSummary(b, ord) == [i \in 1..Len(ord) |-> summaryLine(ord[i], b[ord[i]])]

\* the result is reported as compatible whatever the collaborator said
checkCompatibilityOptimistic(outcome) ==
    IF IsThrown(tryCheckCompatibility(outcome)) THEN FallbackResult
    ELSE IF "isCompatible" \in DOMAIN tryCheckCompatibility(outcome)
         THEN [tryCheckCompatibility(outcome) EXCEPT !.isCompatible = TRUE]
         ELSE tryCheckCompatibility(outcome)

\* checkCompatibility without the catch block
checkCompatibilityRethrow(outcome) == tryCheckCompatibility(outcome)

\* checkCompatibility(build): the value the returned promise resolves to,
\* the fallback result when the try block threw
checkCompatibility(outcome) ==
    IF IsThrown(tryCheckCompatibility(outcome)) THEN FallbackResult
    ELSE tryCheckCompatibility(outcome)

\* the branch of the analysis view that App renders
modalBranch ==
    IF ~showAnalysis THEN "hidden"
    ELSE IF analyzing THEN "spinner"
    ELSE IF analysis # JsNull THEN "result"
    ELSE "failed"

\* the call of checkCompatibility with this number has not settled
Pending(id) == id \in DOMAIN requests /\ requests[id].value = PendingValue

(***************************************************************************)
(* State machine                                                           *)
(***************************************************************************)
Init ==
    /\ build = INITIAL_BUILD
    /\ activeCategory = "CPU"
    /\ lastOp = [op |-> "init", had |-> FALSE]
    /\ analysis = JsNull
    /\ analyzing = FALSE
    /\ showAnalysis = FALSE
    /\ requests = << >>
    /\ items = << >>
    /\ loading = TRUE
    /\ error = NoError
    /\ fetches = <<[category |-> "CPU", settled |-> FALSE, raw |-> << >>, data |-> << >>]>>
    /\ effectCategory = "CPU"

\* the Add button is disabled while the validator reports a warning
handleAddPartBlocked(part) ==
    /\ getCompatibilityWarning(part, build) = NoWarning
    /\ build' = SetSlot(build, part)
    /\ activeCategory' = advanceAfterAdd(activeCategory, part.type)
    /\ lastOp' = [op |-> "add", had |-> Has(build, part.type) /\ build[part.type] # part]
    /\ UNCHANGED <<analysisVars, catalogVars>>

\* handleAddPart(part): the Add button of a candidate.  lastOp.had records
\* that the slot held another record
handleAddPart(part) ==
    /\ build' = SetSlot(build, part)
    /\ activeCategory' = advanceAfterAdd(activeCategory, part.type)
    /\ lastOp' = [op |-> "add", had |-> Has(build, part.type) /\ build[part.type] # part]
    /\ UNCHANGED <<analysisVars, catalogVars>>

\* the slots cannot be clicked while an analysis is pending
handleRemovePartLocked(type) ==
    /\ ~analyzing
    /\ build' = IF Has(build, type) THEN ClearSlot(build, type) ELSE build
    /\ lastOp' = [op |-> "remove", had |-> Has(build, type)]
    /\ UNCHANGED <<activeCategory, analysisVars, catalogVars>>

\* a click on a slot of the diagram, isActive && onRemove(type), with
\* onRemove = handleRemovePart.  lastOp.had records that the slot was occupied
handleRemovePart(type) ==
    /\ build' = IF Has(build, type) THEN ClearSlot(build, type) ELSE build
    /\ lastOp' = [op |-> "remove", had |-> Has(build, type)]
    /\ UNCHANGED <<activeCategory, analysisVars, catalogVars>>

\* the reset button clears the active slot only
clearActive ==
    /\ build' = ClearSlot(build, activeCategory)
    /\ lastOp' = [op |-> "clear", had |-> build # INITIAL_BUILD]
    /\ UNCHANGED <<activeCategory, analysisVars, catalogVars>>

\* the reset button also returns the panel to the first category
clearAllRestart ==
    /\ build' = INITIAL_BUILD
    /\ activeCategory' = "CPU"
    /\ lastOp' = [op |-> "clear", had |-> build # INITIAL_BUILD]
    /\ UNCHANGED <<analysisVars, catalogVars>>

\* the reset button: setBuild({}).  lastOp.had records that the build was
\* not empty
clearAll ==
    /\ build' = INITIAL_BUILD
    /\ lastOp' = [op |-> "clear", had |-> build # INITIAL_BUILD]
    /\ UNCHANGED <<activeCategory, analysisVars, catalogVars>>

\* the sidebar only navigates forward in the auto-advance order
selectForward(type) ==
    /\ indexOf(order, type) >= indexOf(order, activeCategory)
    /\ activeCategory' = type
    /\ lastOp' = [op |-> "select", had |-> FALSE]
    /\ UNCHANGED <<build, analysisVars, catalogVars>>

\* a category button of the sidebar: setActiveCategory(type)
select(type) ==
    /\ activeCategory' = type
    /\ lastOp' = [op |-> "select", had |-> FALSE]
    /\ UNCHANGED <<build, analysisVars, catalogVars>>

\* runAnalysis does not set the pending flag
runAnalysisNoSpinner ==
    /\ Len(requests) < MaxRequests
    /\ showAnalysis' = TRUE
    /\ requests' = Append(requests, [build |-> build, value |-> PendingValue])
    /\ lastOp' = [op |-> "run", had |-> analyzing]
    /\ UNCHANGED <<build, activeCategory, analysis, analyzing, catalogVars>>

\* runAnalysis up to its await: the Check Compatibility button, which is
\* never disabled.  checkCompatibility is called with the build of the
\* render the click happened in.  lastOp.had records that a request was
\* pending
runAnalysis ==
    /\ Len(requests) < MaxRequests
    /\ analyzing' = TRUE
    /\ showAnalysis' = TRUE
    /\ requests' = Append(requests, [build |-> build, value |-> PendingValue])
    /\ lastOp' = [op |-> "run", had |-> analyzing]
    /\ UNCHANGED <<build, activeCategory, analysis, catalogVars>>

\* a request that ended in the fallback is dispatched again
runAnalysisResumeRetry(id, outcome) ==
    /\ Pending(id)
    /\ requests' =
           IF checkCompatibility(outcome) = FallbackResult /\ Len(requests) < MaxRequests
           THEN Append([requests EXCEPT ![id] = [build |-> INITIAL_BUILD,
                                                 value |-> checkCompatibility(outcome)]],
                       [build |-> build, value |-> PendingValue])
           ELSE [requests EXCEPT ![id] = [build |-> INITIAL_BUILD,
                                          value |-> checkCompatibility(outcome)]]
    /\ analysis' = checkCompatibility(outcome)
    /\ analyzing' = FALSE
    /\ lastOp' = [op |-> "response", had |-> \E other \in DOMAIN requests \ {id} : Pending(other)]
    /\ UNCHANGED <<build, activeCategory, showAnalysis, catalogVars>>

\* runAnalysis after its await: the promise of request id settles on what
\* checkCompatibility makes of the collaborator's outcome and lets go of
\* the build it was called with; a rejection would leave the two setters
\* uncalled.  lastOp.had records that another request
\* was still pending
runAnalysisResume(id, outcome) ==
    /\ Pending(id)
    /\ requests' = [requests EXCEPT ![id] = [build |-> INITIAL_BUILD,
                                             value |-> checkCompatibility(outcome)]]
    /\ IF IsThrown(checkCompatibility(outcome))
       THEN UNCHANGED <<analysis, analyzing>>
       ELSE /\ analysis' = checkCompatibility(outcome)
            /\ analyzing' = FALSE
    /\ lastOp' = [op |-> "response", had |-> \E other \in DOMAIN requests \ {id} : Pending(other)]
    /\ UNCHANGED <<build, activeCategory, showAnalysis, catalogVars>>

\* the Close button of the analysis view.  lastOp.had records that a request
\* was pending
dismiss ==
    /\ showAnalysis
    /\ showAnalysis' = FALSE
    /\ lastOp' = [op |-> "dismiss", had |-> analyzing]
    /\ UNCHANGED <<build, activeCategory, analysis, analyzing, requests, catalogVars>>

\* loadItems up to its await, for the selected category
loadItems ==
    /\ Len(fetches) < MaxFetches
    /\ loading' = TRUE
    /\ error' = NoError
    /\ fetches' = Append(fetches, [category |-> activeCategory, settled |-> FALSE,
                                   raw |-> << >>, data |-> << >>])
    /\ UNCHANGED items

\* the effect of ComponentList, which runs loadItems after a render in
\* which selectedCategory differs from the render before.  lastOp.had
\* records that the list was loading
loadItemsEffect ==
    /\ effectCategory # activeCategory
    /\ loadItems
    /\ effectCategory' = activeCategory
    /\ lastOp' = [op |-> "effect", had |-> loading]
    /\ UNCHANGED <<build, activeCategory, analysisVars>>

\* handleSearch: the search form is submitted.  lastOp.had records that the
\* list was loading
handleSearch ==
    /\ loadItems
    /\ lastOp' = [op |-> "search", had |-> loading]
    /\ UNCHANGED <<build, activeCategory, analysisVars, effectCategory>>

\* loadItems after its await: the promise of call id settles on what
\* fetchComponents makes of the provider's outcome; a rejection sets the
\* error, and loading ends either way.  lastOp.had records that another
\* call was still in flight
loadItemsResume(id, outcome) ==
    /\ Loading(id)
    /\ fetches' = [fetches EXCEPT ![id].settled = TRUE,
                                  ![id].raw = outcome.rawData,
                                  ![id].data = fetchComponents(fetches[id].category, outcome).data]
    /\ IF fetchComponents(fetches[id].category, outcome).ok
       THEN /\ items' = fetchComponents(fetches[id].category, outcome).data
            /\ UNCHANGED error
       ELSE /\ error' = "Failed to load components. Please check API Key."
            /\ UNCHANGED items
    /\ loading' = FALSE
    /\ lastOp' = [op |-> "loaded", had |-> \E other \in DOMAIN fetches \ {id} : Loading(other)]
    /\ UNCHANGED <<build, activeCategory, analysisVars, effectCategory>>

\* the Add button of an item of the list, which is rendered when the list
\* is neither loading nor in error
addFromList(i) ==
    /\ ~loading /\ error = NoError
    /\ i \in DOMAIN items
    /\ handleAddPart(items[i])

Next ==
    \/ \E part \in StoreCandidates : handleAddPart(part)
    \/ \E type \in SlottedCategories : handleRemovePart(type)
    \/ clearAll
    \/ \E type \in PartType : select(type)

Spec == Init /\ [][Next]_vars

\* the candidates when the provider has items for the first MaxStocked
\* categories only
StockedCandidates ==
    {part \in StoreCandidates : indexOf(PartTypeValues, part.type) < MaxStocked}

\* the store driven by add, remove and clear-all alone: the histories that
\* decide the insertion order of the keys of the build
NextTotals ==
    \/ \E part \in StockedCandidates : handleAddPart(part)
    \/ \E type \in SlottedCategories : handleRemovePart(type)
    \/ clearAll

SpecTotals == Init /\ [][NextTotals]_vars

\* the candidates of the diagram: one item in every category and a second
\* GPU, so that a slot can be overwritten
DiagramCandidates ==
    {part \in StoreCandidates : part.name = "premium" \/ part.type = "GPU"}

\* the store as the diagram sees it: parts of all eight categories are
\* added, slots are clicked away and the build is reset
NextDiagram ==
    \/ \E part \in DiagramCandidates : handleAddPart(part)
    \/ \E type \in SlottedCategories : handleRemovePart(type)
    \/ clearAll

SpecDiagram == Init /\ [][NextDiagram]_vars

\* the store filled from a catalog of CPUs and motherboards with and without
\* sockets: the builds the validator is evaluated against
NextSockets ==
    \/ \E part \in SocketCandidates : handleAddPart(part)
    \/ \E type \in SlottedCategories : handleRemovePart(type)
    \/ clearAll
    \/ \E type \in PartType : select(type)

SpecSockets == Init /\ [][NextSockets]_vars

\* the categories the user browses
Browsed == {"CPU", "Cabinet"}

\* the candidates of the analysis runs: the premium CPU
AnalysisCandidates == {part \in StoreCandidates : part.type = "CPU" /\ part.name = "premium"}

\* the store together with the analysis: requests are started, answered by
\* the collaborator in any order and with any outcome, and the view is
\* dismissed, while the build is edited
NextAnalysis ==
    \/ \E part \in AnalysisCandidates : handleAddPart(part)
    \/ \E type \in SlottedCategories : handleRemovePart(type)
    \/ clearAll
    \/ \E type \in Browsed : select(type)
    \/ runAnalysis
    \/ \E id \in 1..MaxRequests : \E outcome \in CollaboratorOutcomes :
           runAnalysisResume(id, outcome)
    \/ dismiss

SpecAnalysis == Init /\ [][NextAnalysis]_vars

\* the analysis alone, next to a build that is filled and cleared
NextRequests ==
    \/ \E part \in AnalysisCandidates : handleAddPart(part)
    \/ clearAll
    \/ runAnalysis
    \/ \E id \in 1..MaxRequests : \E outcome \in CollaboratorOutcomes :
           runAnalysisResume(id, outcome)
    \/ dismiss

\* the analysis with a collaborator that settles every request: the promise
\* of each call of generateContent is eventually resolved or rejected, and
\* the event loop then runs the continuation of runAnalysis
SpecAnalysisFair ==
    /\ Init /\ [][NextRequests]_vars
    /\ \A id \in 1..MaxRequests :
           WF_vars(\E outcome \in CollaboratorOutcomes : runAnalysisResume(id, outcome))

\* the store together with the candidate list: the effect runs before any
\* other event once the selected category has changed; otherwise lists are
\* requested, delivered by the provider in any order and with any outcome,
\* and their items are added
NextCatalog ==
    \/ loadItemsEffect
    \/ /\ effectCategory = activeCategory
       /\ \/ \E i \in DOMAIN items : addFromList(i)
          \/ \E type \in SlottedCategories : handleRemovePart(type)
          \/ clearAll
          \/ \E type \in Browsed : select(type)
          \/ handleSearch
          \/ \E id \in 1..MaxFetches :
                 \E outcome \in CatalogOutcomes(IF id \in DOMAIN fetches
                                                THEN fetches[id].category ELSE "CPU") :
                     loadItemsResume(id, outcome)

SpecCatalog == Init /\ [][NextCatalog]_vars

(***************************************************************************)
(* Properties of the build store                                           *)
(***************************************************************************)
\* the sum of the prices of the records stored under the keys S
RECURSIVE SumOfPrices(_, _)
SumOfPrices(b, S) ==
    IF S = {} THEN 0
    ELSE LET k == CHOOSE x \in S : TRUE
         IN  b[k].price + SumOfPrices(b, S \ {k})

\* C1: in every reachable state every key of the build is one of the 8
\* categories, the record stored under a key has that key as its own
\* category, and no two stored records have the same category.
SlotKeyInvariant ==
    /\ DOMAIN build \subseteq PartType
    /\ \A k \in DOMAIN build : build[k].type = k
    /\ \A t \in PartType : Cardinality({k \in DOMAIN build : build[k].type = t}) <= 1

\* an add has replaced another record and all 8 slots are filled
SlotKeyWitness ==
    /\ lastOp.op = "add" /\ lastOp.had
    /\ DOMAIN build = PartType

\* C2: in every reachable state the filled-slot count is the number of keys
\* of the build and the total price is the sum of the prices of the records
\* stored now, 0 for the empty build.
AggregatesMatchBuild ==
    /\ filledCount(build, DeclOrder(build)) = Cardinality(DOMAIN build)
    /\ totalPrice(build, DeclOrder(build)) = SumOfPrices(build, DOMAIN build)
    /\ build = INITIAL_BUILD => totalPrice(build, DeclOrder(build)) = 0

\* a slot was just emptied while others stay filled, one of them by a record
\* whose price is 0
AggregatesWitness ==
    /\ lastOp.op = "remove" /\ lastOp.had
    /\ Cardinality(DOMAIN build) >= 3
    /\ \E k \in DOMAIN build : build[k].price = 0
    /\ totalPrice(build, DeclOrder(build)) > 0

\* C3: an add of any candidate is possible in every state, and the step
\* leaves the slot of the candidate's category holding that candidate.
SetSlotStoresComponent ==
    [][/\ \A part \in StoreCandidates : ENABLED handleAddPart(part)
       /\ \A part \in StoreCandidates :
              handleAddPart(part) => Has(build', part.type) /\ build'[part.type] = part]_vars

\* an add has replaced another record of the same category
SetSlotWitness ==
    /\ lastOp.op = "add" /\ lastOp.had
    /\ \E k \in DOMAIN build : build[k].name = "basic"

\* C4: a remove leaves the category without an entry; on an empty slot the
\* step, and the updater of handleRemovePart itself, leave the build as it
\* was.
ClearSlotRemovesOrNoOp ==
    [][\A type \in PartType :
           /\ ENABLED handleRemovePart(type)
           /\ ~Has(build, type) => ClearSlot(build, type) = build
           /\ handleRemovePart(type) =>
                  /\ ~Has(build', type)
                  /\ ~Has(build, type) => build' = build]_vars

\* a remove was applied to an empty slot of a build that is not empty
ClearSlotWitness ==
    /\ lastOp.op = "remove" /\ ~lastOp.had
    /\ build # INITIAL_BUILD

\* C5: after a remove step for a category, removing the same category again
\* changes nothing; the updater applied twice gives what it gives once.
ClearSlotIdempotent ==
    [][\A type \in PartType :
           /\ ClearSlot(ClearSlot(build, type), type) = ClearSlot(build, type)
           /\ handleRemovePart(type) =>
                  /\ ClearSlot(build', type) = build'
                  /\ ~Has(build', type)]_vars

\* a remove has emptied an occupied slot and other slots are still filled
ClearSlotIdempotentWitness ==
    /\ lastOp.op = "remove" /\ lastOp.had
    /\ build # INITIAL_BUILD

\* C6: right after clear-all the build is the empty mapping: none of the 8
\* slots is filled, the filled-slot count is 0 and the total price is 0.
ClearAllEmpties ==
    lastOp.op = "clear" =>
        /\ build = INITIAL_BUILD
        /\ \A t \in PartType : ~Has(build, t)
        /\ \A ord \in Orders(DOMAIN build) :
               filledCount(build, ord) = 0 /\ totalPrice(build, ord) = 0

\* clear-all was applied to a build that was not empty
ClearAllWitness == lastOp.op = "clear" /\ lastOp.had /\ build = INITIAL_BUILD

HasSocket(part) == part.specs.defined /\ part.specs.socket \notin {Undefined, ""}

SocketOf(part) == part.specs.socket

\* the slot a candidate is compared with
Counterpart(part) == IF part.type = "CPU" THEN "Motherboard" ELSE "CPU"

\* C8: for a candidate CPU, an installed motherboard, both with a socket and
\* the sockets different, the validator returns "Socket Mismatch: " followed
\* by the candidate's socket, " vs " and the motherboard's socket; for AM5
\* against LGA1700 that is "Socket Mismatch: AM5 vs LGA1700".
ProcessorSocketMismatch ==
    \A part \in SocketCandidates :
        (/\ part.type = "CPU" /\ Has(build, "Motherboard")
         /\ HasSocket(part) /\ HasSocket(build["Motherboard"])
         /\ SocketOf(part) # SocketOf(build["Motherboard"]))
        => /\ getCompatibilityWarning(part, build)
                = "Socket Mismatch: " \o SocketOf(part) \o " vs "
                      \o SocketOf(build["Motherboard"])
           /\ (SocketOf(part) = "AM5" /\ SocketOf(build["Motherboard"]) = "LGA1700")
                => getCompatibilityWarning(part, build) = "Socket Mismatch: AM5 vs LGA1700"

\* an LGA1700 motherboard is installed, the CPU list is shown and holds an
\* AM5 CPU
ProcessorSocketWitness ==
    /\ lastOp.op = "select" /\ activeCategory = "CPU"
    /\ Has(build, "Motherboard") /\ HasSocket(build["Motherboard"])
    /\ SocketOf(build["Motherboard"]) = "LGA1700"
    /\ \E part \in SocketCandidates :
           part.type = "CPU" /\ HasSocket(part) /\ SocketOf(part) = "AM5"

\* C9: for a candidate motherboard, an installed CPU, both with a socket and
\* the sockets different, the validator returns the mismatch warning with the
\* motherboard's socket first and the CPU's socket second: the operands of
\* the message for the same two records with the CPU as the candidate,
\* exchanged.
MotherboardSocketMismatch ==
    \A part \in SocketCandidates :
        (/\ part.type = "Motherboard" /\ Has(build, "CPU")
         /\ HasSocket(part) /\ HasSocket(build["CPU"])
         /\ SocketOf(part) # SocketOf(build["CPU"]))
        => /\ getCompatibilityWarning(part, build)
                = "Socket Mismatch: " \o SocketOf(part) \o " vs " \o SocketOf(build["CPU"])
           /\ getCompatibilityWarning(build["CPU"], SetSlot(INITIAL_BUILD, part))
                = "Socket Mismatch: " \o SocketOf(build["CPU"]) \o " vs " \o SocketOf(part)

\* an AM5 CPU was just added, which made the motherboard list the active
\* one, and the list holds an LGA1700 motherboard
MotherboardSocketWitness ==
    /\ lastOp.op = "add" /\ activeCategory = "Motherboard"
    /\ Has(build, "CPU") /\ HasSocket(build["CPU"]) /\ SocketOf(build["CPU"]) = "AM5"
    /\ \E part \in SocketCandidates :
           part.type = "Motherboard" /\ HasSocket(part) /\ SocketOf(part) = "LGA1700"

\* C10: the validator returns no warning for a candidate CPU or motherboard
\* whenever the counterpart slot is empty, the candidate or the installed
\* counterpart has no socket specification, or the two sockets are equal,
\* and for a candidate of any other category.
NoWarningWhenUnknown ==
    \A part \in SocketCandidates :
        (\/ part.type \notin {"CPU", "Motherboard"}
         \/ ~Has(build, Counterpart(part))
         \/ ~HasSocket(part)
         \/ ~HasSocket(build[Counterpart(part)])
         \/ SocketOf(part) = SocketOf(build[Counterpart(part)]))
        => getCompatibilityWarning(part, build) = NoWarning

(***************************************************************************)
(* Properties of the commit policy and of the navigation                   *)
(***************************************************************************)
\* C11: a warning of the validator never prevents a commit: in every build
\* state the Add step of every candidate, warned or not, is enabled and
\* leaves the candidate in the slot of its category with every other slot
\* as it was.
WarnDoesNotBlock ==
    \A part \in SocketCandidates :
        ENABLED (/\ handleAddPart(part)
                 /\ DOMAIN build' = DOMAIN build \cup {part.type}
                 /\ build'[part.type] = part
                 /\ \A k \in DOMAIN build \ {part.type} : build'[k] = build[k])

\* a CPU was just added next to an installed motherboard of another socket:
\* only the Add of a CPU leaves the motherboard category active
WarnDoesNotBlockWitness ==
    /\ lastOp.op = "add"
    /\ activeCategory = "Motherboard"
    /\ Has(build, "CPU") /\ Has(build, "Motherboard")
    /\ HasSocket(build["CPU"]) /\ HasSocket(build["Motherboard"])
    /\ SocketOf(build["CPU"]) # SocketOf(build["Motherboard"])
    /\ getCompatibilityWarning(build["CPU"], build)
           = SocketMismatch(SocketOf(build["CPU"]), SocketOf(build["Motherboard"]))

\* the category that follows c in the canonical order, c itself for the last
Successor(c) ==
    CASE c = "CPU"          -> "Motherboard"
      [] c = "Motherboard"  -> "RAM"
      [] c = "RAM"          -> "GPU"
      [] c = "GPU"          -> "Storage"
      [] c = "Storage"      -> "Cooler"
      [] c = "Cooler"       -> "Power Supply"
      [] c = "Power Supply" -> "Cabinet"
      [] c = "Cabinet"      -> "Cabinet"

\* C12: the active category starts as the processor; an Add of a component
\* of a category other than the case makes the next category of the
\* canonical order active, and an Add of a case leaves the active category
\* unchanged.
AutoAdvance ==
    [][/\ lastOp.op = "init" => activeCategory = "CPU"
       /\ \A part \in StoreCandidates :
              handleAddPart(part) =>
                  activeCategory' = IF part.type = "Cabinet" THEN activeCategory
                                    ELSE Successor(part.type)]_vars

\* a case replaced another case while the power supply category was active
\* and the active category stayed: of the categories whose Add can replace
\* a different record (BasicRange) the other two advance to the motherboard
\* and to the storage
AutoAdvanceWitness ==
    /\ lastOp.op = "add" /\ lastOp.had
    /\ activeCategory = "Power Supply"
    /\ Has(build, "Cabinet")

\* C13: in every state the selection of every category is enabled and makes
\* that category active, whether it precedes the active one or not and
\* whether or not an Add has just advanced the active category.
SelectUnconditional ==
    \A type \in PartType :
        ENABLED (select(type) /\ activeCategory' = type /\ build' = build)

\* a selection went back to the first category from a build that holds a
\* case
SelectUnconditionalWitness ==
    /\ lastOp.op = "select"
    /\ activeCategory = "CPU"
    /\ Has(build, "Cabinet")

(***************************************************************************)
(* Properties of the diagram                                               *)
(***************************************************************************)
\* the five connection rules: id, and the two categories it joins
EdgeRules ==
    {<<"psu-mobo", "Power Supply", "Motherboard">>,
     <<"psu-gpu", "Power Supply", "GPU">>,
     <<"cpu-ram", "CPU", "RAM">>,
     <<"cpu-gpu", "CPU", "GPU">>,
     <<"mobo-sata", "Motherboard", "Storage">>}

\* the ids of the rendered connection groups
EdgeIds(b) == {renderConnections(b)[i].key : i \in DOMAIN renderConnections(b)}

\* C14: the rendered connections are exactly the rules, out of the five,
\* whose two categories are both in the build, each once; a build of a CPU
\* and RAM alone has exactly the cpu-ram edge, with or without a power
\* supply next to them.
EdgesMatchRules ==
    /\ EdgeIds(build) = {r[1] : r \in {q \in EdgeRules : Has(build, q[2]) /\ Has(build, q[3])}}
    /\ Len(renderConnections(build)) = Cardinality(EdgeIds(build))
    /\ {"CPU", "RAM"} \subseteq DOMAIN build /\ DOMAIN build \subseteq {"CPU", "RAM", "Power Supply"}
           => EdgeIds(build) = {"cpu-ram"}

\* CPU, RAM and power supply alone: the power supply contributes no edge
EdgesMatchRulesWitness ==
    /\ DOMAIN build = {"CPU", "RAM", "Power Supply"}
    /\ Len(renderConnections(build)) = 1
    /\ renderConnections(build)[1].key = "cpu-ram"

\* the slot element the diagram holds for a category is right: it is there,
\* it has the geometry of the category, it is active exactly when the build
\* holds a record of the category, and then it carries the record's name and
\* price
SlotShown(b, type) ==
    \E i \in DOMAIN slots(b) :
        LET slot == slots(b)[i]
        IN  /\ slot.key = type
            /\ slot.left = COMPONENT_COORDS[type].x /\ slot.top = COMPONENT_COORDS[type].y
            /\ slot.width = COMPONENT_COORDS[type].width
            /\ slot.height = COMPONENT_COORDS[type].height
            /\ slot.isActive = Has(b, type)
            /\ slot.isActive => slot.name = b[type].name /\ slot.price = b[type].price

\* the empty build gives empty slots only and no connection
EmptyDiagram(b) ==
    b = INITIAL_BUILD =>
        /\ \A i \in DOMAIN slots(b) : ~slots(b)[i].isActive
        /\ renderConnections(b) = << >>

\* C15 as stated: the diagram holds a slot render state for every one of the
\* 8 categories, active exactly when the build holds a record of the
\* category and then carrying its name and price; the empty build gives
\* all-empty slots and no edge.
SlotForEveryCategory ==
    /\ \A type \in PartType : SlotShown(build, type)
    /\ EmptyDiagram(build)

\* C15, amended: the diagram holds a slot render state for exactly the six
\* categories CPU, cooler, RAM, GPU, storage and power supply, each with the
\* geometry of its category, active exactly when the build holds a record
\* of the category and then carrying its name and price; the motherboard
\* and the case have geometry but no slot render state; the empty build
\* gives six empty slots and no edge.
SlotForSlottedCategory ==
    /\ \A type \in PartType \ {"Motherboard", "Cabinet"} : SlotShown(build, type)
    /\ {slots(build)[i].key : i \in DOMAIN slots(build)} = PartType \ {"Motherboard", "Cabinet"}
    /\ Len(slots(build)) = Cardinality(PartType) - 2
    /\ EmptyDiagram(build)

\* a build with a motherboard, a CPU and no cooler: the CPU slot is active,
\* the cooler slot at the same coordinates is empty, and no slot stands for
\* the motherboard
SlotForSlottedCategoryWitness ==
    /\ Has(build, "Motherboard") /\ Has(build, "CPU") /\ ~Has(build, "Cooler")
    /\ \E i \in DOMAIN slots(build) :
           slots(build)[i].key = "CPU" /\ slots(build)[i].isActive
    /\ \E i \in DOMAIN slots(build) :
           slots(build)[i].key = "Cooler" /\ ~slots(build)[i].isActive
    /\ \A i \in DOMAIN slots(build) : slots(build)[i].key # "Motherboard"

(***************************************************************************)
(* Properties of the analysis                                              *)
(***************************************************************************)
\* a value with every property of a CompatibilityResult
WellFormed(v) == DOMAIN v = DOMAIN FallbackResult

\* the outcomes in which the collaborator failed: it threw, it returned no
\* text, or the text is not a well-formed CompatibilityResult
FailureOutcomes ==
    {o \in CollaboratorOutcomes :
        \/ o.rejects
        \/ ~Truthy(o.text)
        \/ ~WellFormed(JSONparse(o.text))}

\* C17: when the collaborator fails in any way (it throws, it returns no
\* text, it returns a malformed payload) the request ends without an error,
\* no longer pending and with the fallback result stored: compatible, the
\* single issue "Could not verify compatibility (AI Error)", no notes,
\* wattage 0, bottleneck "Unknown", score 0.
FailureGivesFallback ==
    [][\A id \in 1..MaxRequests : \A outcome \in FailureOutcomes :
          runAnalysisResume(id, outcome) =>
              /\ ~IsThrown(requests'[id].value)
              /\ ~analyzing'
              /\ analysis' = [isCompatible |-> TRUE,
                              issues |-> <<"Could not verify compatibility (AI Error)">>,
                              notes |-> << >>,
                              estimatedWattage |-> 0,
                              bottleneck |-> "Unknown",
                              aiScore |-> 0]]_vars

\* every request has settled
AllSettled == \A id \in DOMAIN requests : ~Pending(id)

\* C18: stale responses are ignored: once the responses of all requests
\* have arrived, in whatever order, the displayed result is the one of the
\* request started last.
LatestResultShown ==
    (requests # << >> /\ AllSettled) => analysis = requests[Len(requests)].value

\* C19: once a request has completed and the analysis is not pending, a
\* result is stored, so the analysis view never shows its 'no result'
\* branch, whatever the collaborator returned.
ResultStoredAfterCompletion ==
    (requests # << >> /\ ~analyzing) => (analysis # JsNull /\ modalBranch # "failed")

FetchedTypeIsCategory ==
    /\ \A id \in DOMAIN fetches : \A i \in DOMAIN fetches[id].data :
           fetches[id].data[i].type = fetches[id].category
    /\ \/ items = << >>
       \/ \E id \in DOMAIN fetches : fetches[id].settled /\ items = fetches[id].data

\* the list shows the record of a fetch whose provider wrote another type
\* on it than the category requested
FetchedTypeIsCategoryWitness ==
    \E id \in DOMAIN fetches :
        /\ fetches[id].settled
        /\ fetches[id].raw # << >>
        /\ fetches[id].raw[1].type # fetches[id].category
        /\ items = fetches[id].data
        /\ items[1].type = fetches[id].category

\* C22: when the provider rejects or throws, the list enters the error
\* state, from which a retry is offered, no new fetch is started and the
\* build is unchanged.
ProviderFailureGivesError ==
    [][\A id \in 1..MaxFetches :
          loadItemsResume(id, [kind |-> "reject", rawData |-> << >>]) =>
              /\ error' # NoError
              /\ ~loading'
              /\ Len(fetches') = Len(fetches)
              /\ build' = build]_vars

\* C27: a superseded response is ignored: once every fetch has settled and
\* loading has finished, the list shown is the response of the fetch
\* started last.
LatestListShown ==
    ((\A id \in DOMAIN fetches : fetches[id].settled) /\ ~loading)
        => items = fetches[Len(fetches)].data

(***************************************************************************)
(* Properties of the analysis and the build                                *)
(***************************************************************************)
\* C23: there is no locking: in every state, with an analysis or a fetch of
\* the list pending or not, adding a candidate, removing a category and
\* clearing the build are enabled and change the build in the same way.
MutableWhilePending ==
    /\ \A part \in AnalysisCandidates :
           ENABLED (/\ handleAddPart(part)
                    /\ DOMAIN build' = DOMAIN build \cup {part.type}
                    /\ build'[part.type] = part
                    /\ \A k \in DOMAIN build \ {part.type} : build'[k] = build[k])
    /\ \A type \in PartType :
           ENABLED (/\ handleRemovePart(type)
                    /\ DOMAIN build' = DOMAIN build \ {type}
                    /\ \A k \in DOMAIN build' : build'[k] = build[k])
    /\ ENABLED (clearAll /\ build' = INITIAL_BUILD)

\* while a request and the fetch of the list are pending, the CPU the
\* request was dispatched with has been removed from the build
MutableWhilePendingWitness ==
    /\ analyzing /\ loading
    /\ lastOp.op = "remove" /\ lastOp.had
    /\ \E id \in DOMAIN requests : Pending(id) /\ Has(requests[id].build, "CPU")
    /\ ~Has(build, "CPU")

\* C24: a run of the analysis makes the analysis pending and dispatches a
\* request with the build of that moment, whose summary has one line per
\* filled slot and none for an empty slot; no later step changes the build
\* of a request that is in flight.
SnapshotDispatched ==
    [][/\ lastOp'.op = "run" =>
              /\ analyzing'
              /\ Len(requests') = Len(requests) + 1
              /\ requests'[Len(requests')].build = build
              /\ \A ord \in Orders(DOMAIN build) :
                     LET lines == buildSummary(requests'[Len(requests')].build, ord)
                     IN  /\ Len(lines) = Cardinality(DOMAIN build)
                         /\ {lines[i] : i \in DOMAIN lines}
                                = {summaryLine(type, build[type]) : type \in DOMAIN build}
       /\ \A id \in DOMAIN requests :
              (Pending(id) /\ requests'[id].value = PendingValue)
                  => requests'[id].build = requests[id].build]_vars

\* a request is in flight for a build with a CPU, dispatched after an
\* earlier request for the empty build, and the build has since been
\* emptied again
SnapshotDispatchedWitness ==
    /\ Len(requests) = MaxRequests
    /\ requests[1].build = INITIAL_BUILD
    /\ Pending(MaxRequests) /\ Has(requests[MaxRequests].build, "CPU")
    /\ build = INITIAL_BUILD

\* C25: when a pending request receives a well-formed result, the analysis
\* is no longer pending and the stored result, the one the view displays,
\* is exactly the result the collaborator returned.
WellFormedResultStored ==
    [][\A id \in 1..MaxRequests :
          runAnalysisResume(id, [rejects |-> FALSE, text |-> ResultText]) =>
              /\ ~analyzing'
              /\ analysis' = [isCompatible |-> FALSE,
                              issues |-> <<"PSU too weak">>,
                              notes |-> << >>,
                              estimatedWattage |-> 450,
                              bottleneck |-> "GPU",
                              aiScore |-> 72]
              /\ showAnalysis => modalBranch' = "result"]_vars

\* the view shows the result the collaborator returned
WellFormedResultStoredWitness ==
    /\ lastOp.op = "response"
    /\ modalBranch = "result"
    /\ analysis.aiScore = 72 /\ ~analysis.isCompatible

\* C26 as stated: a dismissal or a new request after a completed one
\* discards the previous result: it is no longer stored and not displayed.
ResultDiscarded ==
    [][(lastOp'.op \in {"dismiss", "run"} /\ ~analyzing)
          => (analysis' = JsNull /\ modalBranch' # "result")]_vars

\* C26, amended: a dismissal hides the analysis view and a new request
\* shows it as pending; neither changes the stored result, which stays
\* stored until a response replaces it; a result comes to be displayed, and
\* the stored result changes, only in the step of a response, and it is
\* then the result of that response.
ResultNotShownAgain ==
    [][/\ lastOp'.op = "dismiss" => (modalBranch' = "hidden" /\ analysis' = analysis)
       /\ lastOp'.op = "run" => (modalBranch' = "spinner" /\ analysis' = analysis)
       /\ ((modalBranch' = "result" /\ modalBranch # "result") \/ analysis' # analysis)
              => /\ lastOp'.op = "response"
                 /\ \E id \in DOMAIN requests :
                        Pending(id) /\ analysis' = requests'[id].value]_vars

\* a new request is pending with the result of the previous one still stored
ResultNotShownAgainWitness ==
    /\ lastOp.op = "run" /\ ~lastOp.had
    /\ analysis # JsNull
    /\ modalBranch = "spinner"

\* C28: requests are dispatched by runs of the analysis alone, one per run:
\* no response, failed or not, no build mutation, no category change and no
\* dismissal dispatches one.
NoAutomaticRetry ==
    [][/\ Len(requests') # Len(requests) => lastOp'.op = "run"
       /\ lastOp'.op = "run" => Len(requests') = Len(requests) + 1]_vars

\* the only request ended in the fallback and a category was selected, and
\* no other request was dispatched
NoAutomaticRetryWitness ==
    /\ Len(requests) = 1 /\ requests[1].value = FallbackResult
    /\ analysis = FallbackResult
    /\ lastOp.op = "select"

(***************************************************************************)
(* Properties of the routed paths                                          *)
(***************************************************************************)
\* the path drawn for the connection with the given id
EdgePath(b, id) ==
    renderConnections(b)[CHOOSE i \in DOMAIN renderConnections(b) :
                             renderConnections(b)[i].key = id].corePath.d

\* the last point of a path
EndOf(path) == path[Len(path)]

\* C29 as stated: the motherboard end of the motherboard-storage edge is
\* the motherboard's top-left corner moved by (+60, +120), and the storage
\* end is the centre of the storage slot.
SataAnchorFromCorner ==
    "mobo-sata" \in EdgeIds(build) =>
        /\ EdgePath(build, "mobo-sata")[1]
               = [x |-> COMPONENT_COORDS["Motherboard"].x + 60,
                  y |-> COMPONENT_COORDS["Motherboard"].y + 120]
        /\ EndOf(EdgePath(build, "mobo-sata")) = [x |-> 428, y |-> 452]

\* C29, amended: the motherboard end of the motherboard-storage edge is
\* the centre of the motherboard geometry moved by (+60, +120), the point
\* (270, 360), and the storage end is the centre of the storage slot, the
\* point (428, 452).
SataAnchorFromCentre ==
    "mobo-sata" \in EdgeIds(build) =>
        /\ EdgePath(build, "mobo-sata")[1] = [x |-> 270, y |-> 360]
        /\ EndOf(EdgePath(build, "mobo-sata")) = [x |-> 428, y |-> 452]

\* a storage device was added to a build with a motherboard and the edge is
\* drawn
SataAnchorFromCentreWitness ==
    /\ lastOp.op = "add"
    /\ Has(build, "Motherboard") /\ Has(build, "Storage")
    /\ "mobo-sata" \in EdgeIds(build)
    /\ Len(EdgePath(build, "mobo-sata")) = 3

\* the two anchors of an edge: the centres of the two slots, and for the
\* motherboard-storage edge the point of the motherboard given under C29
SourceAnchor(id) ==
    CASE id = "psu-mobo"  -> [x |-> 110, y |-> 528]
      [] id = "psu-gpu"   -> [x |-> 110, y |-> 528]
      [] id = "cpu-ram"   -> [x |-> 208, y |-> 150]
      [] id = "cpu-gpu"   -> [x |-> 208, y |-> 150]
      [] id = "mobo-sata" -> [x |-> 270, y |-> 360]

TargetAnchor(id) ==
    CASE id = "psu-mobo"  -> [x |-> 210, y |-> 240]
      [] id = "psu-gpu"   -> [x |-> 192, y |-> 304]
      [] id = "cpu-ram"   -> [x |-> 316, y |-> 174]
      [] id = "cpu-gpu"   -> [x |-> 192, y |-> 304]
      [] id = "mobo-sata" -> [x |-> 428, y |-> 452]

Vertical(p, q) == p.x = q.x /\ p.y # q.y

Horizontal(p, q) == p.y = q.y /\ p.x # q.x

\* the path runs from the source anchor to the target anchor of its edge
FromSourceToTarget(b, id) ==
    EdgePath(b, id)[1] = SourceAnchor(id) /\ EndOf(EdgePath(b, id)) = TargetAnchor(id)

\* a vertical run, a horizontal run, a vertical run
VerticalHorizontalVertical(path) ==
    /\ Len(path) = 4
    /\ Vertical(path[1], path[2]) /\ Horizontal(path[2], path[3]) /\ Vertical(path[3], path[4])

\* C30 as stated: the path of every edge is a vertical run from the source
\* anchor, a horizontal run to the target's x and a vertical run to the
\* target anchor, never a single straight segment.
EveryPathOrthogonal ==
    \A id \in EdgeIds(build) :
        FromSourceToTarget(build, id) /\ VerticalHorizontalVertical(EdgePath(build, id))

\* C30, amended: every path starts at the source anchor and ends at the
\* target anchor of its edge.  The two power edges run vertically to the
\* height halfway between the anchors, horizontally to the target's x and
\* vertically to the target; the CPU-GPU edge runs vertically to the
\* target's height and then horizontally; the motherboard-storage edge runs
\* horizontally to the target's x and then vertically; the CPU-RAM edge is
\* a single straight segment between the two centres, which is not
\* axis-aligned.
PathsAsRouted ==
    \A id \in EdgeIds(build) :
        LET path == EdgePath(build, id)
        IN  /\ FromSourceToTarget(build, id)
            /\ id \in {"psu-mobo", "psu-gpu"} =>
                   /\ VerticalHorizontalVertical(path)
                   /\ 2 * path[2].y = SourceAnchor(id).y + TargetAnchor(id).y
            /\ id = "cpu-gpu" =>
                   Len(path) = 3 /\ Vertical(path[1], path[2]) /\ Horizontal(path[2], path[3])
            /\ id = "mobo-sata" =>
                   Len(path) = 3 /\ Horizontal(path[1], path[2]) /\ Vertical(path[2], path[3])
            /\ id = "cpu-ram" =>
                   Len(path) = 2 /\ ~Vertical(path[1], path[2]) /\ ~Horizontal(path[1], path[2])

\* all five edges are drawn
PathsAsRoutedWitness ==
    /\ EdgeIds(build) = {"psu-mobo", "psu-gpu", "cpu-ram", "cpu-gpu", "mobo-sata"}
    /\ Len(EdgePath(build, "psu-gpu")) = 4
    /\ Len(EdgePath(build, "cpu-ram")) = 2

(***************************************************************************)
(* Properties of the routing                                               *)
(***************************************************************************)
\* the four path templates of renderConnections, applied to two anchors:
\* getOrthoPath (the power edges), the straight line (CPU-RAM), vertical
\* then horizontal (CPU-GPU), horizontal then vertical (motherboard-storage)
Routings == {"ortho", "line", "down-across", "across-down"}

Route(routing, start, end) ==
    CASE routing = "ortho"       -> getOrthoPath(start, end)
      [] routing = "line"        -> <<Point(start.x, start.y), Point(end.x, end.y)>>
      [] routing = "down-across" -> <<Point(start.x, start.y), Point(start.x, end.y), Point(end.x, end.y)>>
      [] routing = "across-down" -> <<Point(start.x, start.y), Point(end.x, start.y), Point(end.x, end.y)>>

\* the template each rule uses
RoutingOf(id) ==
    CASE id = "psu-mobo"  -> "ortho"
      [] id = "psu-gpu"   -> "ortho"
      [] id = "cpu-ram"   -> "line"
      [] id = "cpu-gpu"   -> "down-across"
      [] id = "mobo-sata" -> "across-down"

\* the build reduced to the two slots an edge joins
EndpointsOnly(b, id) ==
    LET rule == CHOOSE r \in EdgeRules : r[1] = id
    IN  [k \in {rule[2], rule[3]} |-> b[k]]

\* C31 as stated: one routing function gives the path of every edge from
\* its two anchors, whichever rule fired.
OneRoutingForEveryEdge ==
    \E routing \in Routings :
        \A id \in EdgeIds(build) :
            EdgePath(build, id) = Route(routing, SourceAnchor(id), TargetAnchor(id))

\* C31, amended: the path of an edge is a function of its rule and of the
\* two anchors: each rule applies its own template to its anchors, and two
\* templates give different paths on the same pair of anchors; the path
\* does not depend on the other contents of the build (it is the path
\* drawn when the two endpoints are alone in the build) and is the same in
\* every derivation.
PathByRuleAndAnchors ==
    /\ \A id \in EdgeIds(build) :
           /\ EdgePath(build, id) = Route(RoutingOf(id), SourceAnchor(id), TargetAnchor(id))
           /\ EdgePath(build, id) = EdgePath(EndpointsOnly(build, id), id)
    /\ \A id \in EdgeIds(build) : \A other \in Routings \ {RoutingOf(id)} :
           Route(other, SourceAnchor(id), TargetAnchor(id)) # EdgePath(build, id)

\* the CPU-GPU edge is drawn in a build that also holds a RAM module and a
\* power supply, after one of its endpoints was overwritten
PathByRuleAndAnchorsWitness ==
    /\ lastOp.op = "add" /\ lastOp.had
    /\ {"cpu-gpu", "psu-gpu", "cpu-ram"} \subseteq EdgeIds(build)
    /\ Len(EdgePath(build, "cpu-gpu")) = 3

(***************************************************************************)
(* Properties of the edge set                                              *)
(***************************************************************************)
\* the logical kind a stroke stands for: the two power gradients, the data
\* gradient, the plain green of the SATA link
KindOfStroke(stroke) ==
    CASE stroke \in {"url(#grad-power)", "url(#grad-power-gpu)"} -> "power"
      [] stroke = "url(#grad-data)"                              -> "data"
      [] stroke = "#34d399"                                      -> "storage-link"
      [] OTHER                                                   -> "none"

\* the kind of each rule
KindOfRule(id) ==
    CASE id \in {"psu-mobo", "psu-gpu"} -> "power"
      [] id \in {"cpu-ram", "cpu-gpu"}  -> "data"
      [] id = "mobo-sata"               -> "storage-link"

\* C32: every rule whose two categories are in the build has exactly one
\* rendered edge, drawn in the stroke of the rule's kind (power for the two
\* power-supply edges, data for the two processor edges, storage-link for
\* the motherboard-storage edge); there are never more than five edges and
\* never two for one rule.
OneEdgePerRule ==
    LET edges == renderConnections(build)
    IN  /\ \A rule \in EdgeRules :
               Cardinality({i \in DOMAIN edges : edges[i].key = rule[1]})
                   = IF Has(build, rule[2]) /\ Has(build, rule[3]) THEN 1 ELSE 0
        /\ \A i \in DOMAIN edges : KindOfStroke(edges[i].corePath.stroke) = KindOfRule(edges[i].key)
        /\ Len(edges) <= 5

\* the fifth edge appeared with the last part added; two edges of each of
\* the kinds power and data and one storage link are drawn
OneEdgePerRuleWitness ==
    LET edges == renderConnections(build)
    IN  /\ lastOp.op = "add" /\ ~lastOp.had
        /\ Len(edges) = 5
        /\ Cardinality({i \in DOMAIN edges : KindOfStroke(edges[i].corePath.stroke) = "power"}) = 2
        /\ Cardinality({i \in DOMAIN edges : KindOfStroke(edges[i].corePath.stroke) = "data"}) = 2

(***************************************************************************)
(* Properties of the anchors                                               *)
(***************************************************************************)
\* the centre of the geometry of a category, from the table
CentreOf(type) ==
    [x |-> COMPONENT_COORDS[type].x + COMPONENT_COORDS[type].width \div 2,
     y |-> COMPONENT_COORDS[type].y + COMPONENT_COORDS[type].height \div 2]

\* C33: the path of each of the four edges other than motherboard-storage
\* starts at the centre of its first category and ends at the centre of
\* its second, the centre being (x + width/2, y + height/2) of the fixed
\* geometry: (110, 528) for the power supply, (210, 240) for the
\* motherboard, (192, 304) for the GPU, (208, 150) for the CPU and
\* (316, 174) for the RAM.
AnchorsAreCentres ==
    /\ \A rule \in EdgeRules :
           rule[1] \in EdgeIds(build) /\ rule[1] # "mobo-sata" =>
               /\ EdgePath(build, rule[1])[1] = CentreOf(rule[2])
               /\ EndOf(EdgePath(build, rule[1])) = CentreOf(rule[3])
    /\ "psu-mobo" \in EdgeIds(build) =>
           /\ EdgePath(build, "psu-mobo")[1] = [x |-> 110, y |-> 528]
           /\ EndOf(EdgePath(build, "psu-mobo")) = [x |-> 210, y |-> 240]
    /\ "cpu-gpu" \in EdgeIds(build) =>
           /\ EdgePath(build, "cpu-gpu")[1] = [x |-> 208, y |-> 150]
           /\ EndOf(EdgePath(build, "cpu-gpu")) = [x |-> 192, y |-> 304]
    /\ "cpu-ram" \in EdgeIds(build) =>
           EndOf(EdgePath(build, "cpu-ram")) = [x |-> 316, y |-> 174]

\* the storage device was removed and exactly the four centre-anchored
\* edges remain
AnchorsAreCentresWitness ==
    /\ lastOp.op = "remove" /\ lastOp.had
    /\ EdgeIds(build) = {"psu-mobo", "psu-gpu", "cpu-ram", "cpu-gpu"}
    /\ EdgePath(build, "psu-gpu")[1] = CentreOf("Power Supply")

(***************************************************************************)
(* Properties of overlapping requests                                      *)
(***************************************************************************)
\* C34: while the response of the request started last has not arrived,
\* the analysis is pending; the response of an older request does not end
\* the pending state while the newer request is in flight.
PendingWhileLatestInFlight ==
    (requests # << >> /\ Pending(Len(requests))) => analyzing

(***************************************************************************)
(* Frame properties                                                        *)
(***************************************************************************)
\* every slot but the one of the given category is as it was
OtherSlotsKept(type) ==
    \A k \in PartType \ {type} :
        /\ Has(build', k) <=> Has(build, k)
        /\ Has(build, k) => build'[k] = build[k]

\* C35: adding a component changes at most the slot of the component's
\* category and removing a category changes at most the slot of that
\* category: the records of all other categories are the same after the
\* step.
SlotMutationFrame ==
    [][/\ \A part \in StockedCandidates : handleAddPart(part) => OtherSlotsKept(part.type)
       /\ \A type \in SlottedCategories : handleRemovePart(type) => OtherSlotsKept(type)]_vars

\* a slot was overwritten while at least three other slots were filled
SlotMutationFrameWitness ==
    /\ lastOp.op = "add" /\ lastOp.had
    /\ Cardinality(DOMAIN build) >= 4

\* C36: selecting a category leaves the build unchanged; removing a part
\* and clearing the build leave the active category unchanged; adding,
\* removing, clearing and selecting leave the pending flag, the visibility
\* of the analysis view, the stored result and the requests in flight
\* unchanged; starting an analysis, dismissing the view and the arrival of
\* a response leave the build and the active category unchanged.
StatePartsIndependent ==
    [][/\ lastOp'.op = "select" => build' = build
       /\ lastOp'.op \in {"remove", "clear"} => activeCategory' = activeCategory
       /\ lastOp'.op \in {"add", "remove", "clear", "select"} =>
              /\ analyzing' = analyzing
              /\ showAnalysis' = showAnalysis
              /\ analysis' = analysis
              /\ requests' = requests
       /\ lastOp'.op \in {"run", "response", "dismiss"} =>
              /\ build' = build
              /\ activeCategory' = activeCategory]_vars

\* a filled build was cleared while another category than the first was
\* active, a request was pending and a result of an earlier request stored
StatePartsIndependentWitness ==
    /\ lastOp.op = "clear" /\ lastOp.had
    /\ activeCategory # "CPU"
    /\ analyzing
    /\ analysis # JsNull

(***************************************************************************)
(* Properties of the edge set under edits                                  *)
(***************************************************************************)
\* the ids of the rules with an endpoint among the given categories
EdgesAt(types) == {rule[1] : rule \in {q \in EdgeRules : q[2] \in types \/ q[3] \in types}}

\* C37: adding a part removes no edge, and changes no edge at all when
\* the slot was occupied; removing a part removes exactly the edges that
\* have its category as an endpoint and adds none; adding or removing a
\* cooler or a case leaves the edges as they were.
EdgesFollowEdits ==
    [][LET gone  == DOMAIN build \ DOMAIN build'
           fresh == DOMAIN build' \ DOMAIN build
       IN  /\ lastOp'.op = "add" =>
                  /\ EdgeIds(build) \subseteq EdgeIds(build')
                  /\ fresh = {} => renderConnections(build') = renderConnections(build)
           /\ lastOp'.op = "remove" =>
                  /\ Cardinality(gone) <= 1 /\ fresh = {}
                  /\ EdgeIds(build') = EdgeIds(build) \ EdgesAt(gone)
           /\ lastOp'.op \in {"add", "remove"} /\ gone \cup fresh \subseteq {"Cooler", "Cabinet"} =>
                  renderConnections(build') = renderConnections(build)]_vars

\* the cooler was removed from a build that draws all five edges
EdgesFollowEditsWitness ==
    /\ lastOp.op = "remove" /\ lastOp.had
    /\ ~Has(build, "Cooler")
    /\ Cardinality(EdgeIds(build)) = 5
====
